---- MODULE Spec2Model ----
(***************************************************************************)
(* Model of treasury_app.py: the SQLite transaction store and its          *)
(* handlers, the CSV import of main(), and the analytics helpers           *)
(* compute_kpis, balance_timeseries, monthly_flows and category_breakdown. *)
(*                                                                         *)
(* Dates are day numbers counted from 2024-01-01 (day 0); the store keeps  *)
(* the day number where SQLite keeps the ISO text, whose text order is the *)
(* date order.  Amounts are integers (minor units); a quotient is kept as  *)
(* an exact fraction in lowest terms where the code keeps a float.         *)
(***************************************************************************)
EXTENDS Integers, Sequences, FiniteSets

VARIABLES
    transactions,    \* table transactions: a set of rows, unique id
    next_id,         \* AUTOINCREMENT counter of the table
    initial_balance, \* settings row 'initial_balance'
    today,           \* the wall clock's date, what date.today() returns
    up,              \* the uploaded CSV of the last import, <<>> if none
    import_outcome,  \* "none", "missing", "success" or "error"
    store_before,    \* the table as it was when the last import began
    pc,              \* position of the dashboard pass
    df,              \* the DataFrame of fetch_transactions_df
    cutoff,          \* local of compute_kpis (line 129)
    days,            \* local of compute_kpis (lines 135-139)
    kpi,             \* the dict compute_kpis returns
    prev_kpi,        \* the dict of the previous pass, <<>> if none
    ts,              \* result of balance_timeseries
    mf,              \* result of monthly_flows
    cb               \* result of category_breakdown

vars == <<transactions, next_id, initial_balance, today, up, import_outcome,
          store_before, pc, df, cutoff, days, kpi, prev_kpi, ts, mf, cb>>

(***************************************************************************)
(* Bounds and sample inputs.                                               *)
(***************************************************************************)
MaxTx == 2
MaxRows == 2
MaxTicks == 1

MaxId == MaxTx + 1

NULL == "<NULL>"
NaN == "<NaN>"

Amounts == {-3, 0, 2}
Balances == {0, 7}
FirstDays == {90}
KpiDates == {10, 50, 60, 75, 95}
AggDates == {50, 60, 75}
Categories == {NULL, "", "Autre"}

(***************************************************************************)
(* Column helpers.                                                         *)
(***************************************************************************)
Max(a, b) == IF a >= b THEN a ELSE b

RECURSIVE SetSum(_)
\* sum of amount over a set of table rows
SetSum(S) ==
    IF S = {} THEN 0
    ELSE LET r == CHOOSE x \in S : TRUE
         IN  r.amount + SetSum(S \ {r})

RECURSIVE ColSum(_)
\* df['amount'].sum()
ColSum(d) == IF d = <<>> THEN 0 ELSE Head(d).amount + ColSum(Tail(d))

\* df[mask]
Filter(d, Keep(_)) == SelectSeq(d, Keep)

ColDates(d) == {d[i].t_date : i \in 1..Len(d)}

SetMin(S) == CHOOSE x \in S : \A y \in S : x <= y
SetMax(S) == CHOOSE x \in S : \A y \in S : x >= y

RECURSIVE SortedSeq(_)
\* the elements of a set of integers, ascending
SortedSeq(S) ==
    IF S = {} THEN <<>>
    ELSE <<SetMin(S)>> \o SortedSeq(S \ {SetMin(S)})

(***************************************************************************)
(* fetch_transactions_df: SELECT * ... ORDER BY t_date ASC, id ASC.        *)
(***************************************************************************)
RowBefore(a, b) ==
    \/ a.t_date < b.t_date
    \/ a.t_date = b.t_date /\ a.id < b.id

RECURSIVE OrderByDateId(_)
OrderByDateId(S) ==
    IF S = {} THEN <<>>
    ELSE LET m == CHOOSE r \in S : \A o \in S : o = r \/ RowBefore(r, o)
         IN  <<m>> \o OrderByDateId(S \ {m})

fetch_transactions_df(table) == OrderByDateId(table)

(***************************************************************************)
(* compute_kpis.                                                           *)
(***************************************************************************)
WindowDays == 30
MinSpanDays == 30

None == <<>>
Some(x) == <<x>>

RECURSIVE Gcd(_, _)
Gcd(a, b) == IF b = 0 THEN a ELSE Gcd(b, a % b)

Abs(x) == IF x < 0 THEN -x ELSE x

\* the quotient n / d (d >= 1) in lowest terms
Quot(n, d) ==
    LET g == Gcd(Abs(n), d)
    IN  [num |-> n \div g, den |-> d \div g]

\* int(x): truncation towards zero of the quotient a / b, b > 0
IntTrunc(a, b) == IF a >= 0 THEN a \div b ELSE -((-a) \div b)

current_balance_no_initial(d, ib) == ColSum(d)

\* line 126 (line 120 for the empty frame, whose sum is 0)
current_balance(d, ib) == ib + ColSum(d)

\* line 129
cutoff_at(t) == t - WindowDays

InWindow(d, c) == LET Keep(r) == r.t_date >= c IN Filter(d, Keep)

\* line 130
net_30d(d, c) == ColSum(InWindow(d, c))

\* lines 133-137
period_df(d, c) == IF InWindow(d, c) # <<>> THEN InWindow(d, c) ELSE d

\* lines 133-139, t being the date.today() of line 135
days_of(d, c, t) ==
    IF InWindow(d, c) # <<>>
    THEN (t - Max(SetMin(ColDates(InWindow(d, c))), c)) + 1
    ELSE Max((SetMax(ColDates(d)) - SetMin(ColDates(d))) + 1, MinSpanDays)

\* line 140
avg_daily_burn(d, c, n) == Quot(ColSum(period_df(d, c)), Max(n, 1))

runway_days_unguarded(balance, burn) ==
    IF burn.num < 0
    THEN Some(IntTrunc(balance * burn.den, -burn.num))
    ELSE None

\* lines 143-145
runway_days(balance, burn) ==
    IF burn.num < 0
    THEN IF balance > 0
         THEN Some(IntTrunc(balance * burn.den, -burn.num))
         ELSE Some(0)
    ELSE None

(***************************************************************************)
(* balance_timeseries.                                                     *)
(***************************************************************************)
RECURSIVE InsertByDate(_, _)
\* r placed after every row of the sorted s whose t_date is not later
InsertByDate(s, r) ==
    IF s = <<>> THEN <<r>>
    ELSE IF Head(s).t_date <= r.t_date
         THEN <<Head(s)>> \o InsertByDate(Tail(s), r)
         ELSE <<r>> \o s

RECURSIVE SortByDate(_)
\* line 159: sort_values('t_date'); rows of one date keep their order
SortByDate(d) ==
    IF d = <<>> THEN <<>>
    ELSE InsertByDate(SortByDate(SubSeq(d, 1, Len(d) - 1)), d[Len(d)])

\* line 160: the cumsum column, at row i
CumSum(d, i) == ColSum(SubSeq(d, 1, i))

group_first(tmp, date) == SetMin({i \in 1..Len(tmp) : tmp[i].t_date = date})

\* line 161: groupby('t_date').last() takes the last row of each date
group_last(tmp, date) == SetMax({i \in 1..Len(tmp) : tmp[i].t_date = date})

\* lines 155-163
balance_timeseries(d, ib) ==
    IF d = <<>> THEN <<>>
    ELSE LET tmp == SortByDate(d)
             keys == SortedSeq(ColDates(tmp))
         IN  [k \in 1..Len(keys) |->
                [date |-> keys[k],
                 balance |-> CumSum(tmp, group_last(tmp, keys[k])) + ib]]

(***************************************************************************)
(* monthly_flows.                                                          *)
(***************************************************************************)
\* 2024, the year of the day numbers
DaysInMonth == <<31, 29, 31, 30, 31, 30, 31, 31, 30, 31, 30, 31>>

RECURSIVE MonthFloor(_, _, _)
MonthFloor(day, m, first) ==
    IF m = Len(DaysInMonth) \/ day < first + DaysInMonth[m]
    THEN first
    ELSE MonthFloor(day, m + 1, first + DaysInMonth[m])

\* line 170: to_period('M').to_timestamp(), the first day of the date's month
MonthStart(day) == MonthFloor(day, 1, 0)

MonthsOf(d) == {MonthStart(d[i].t_date) : i \in 1..Len(d)}

\* groupby('month')['amount'].sum(), at month m
MonthSum(d, m) ==
    LET Keep(r) == MonthStart(r.t_date) = m IN ColSum(Filter(d, Keep))

Positive(d) == LET Keep(r) == r.amount > 0 IN Filter(d, Keep)
Negative(d) == LET Keep(r) == r.amount < 0 IN Filter(d, Keep)

flows_index_no_net(inflow, outflow, net) == MonthsOf(inflow) \cup MonthsOf(outflow)

\* line 174: the frame's index is the union of the three series' indexes
flows_index(inflow, outflow, net) ==
    MonthsOf(inflow) \cup MonthsOf(outflow) \cup MonthsOf(net)

\* lines 166-175; fillna(0) fills a month a series does not have
monthly_flows(d) ==
    IF d = <<>> THEN <<>>
    ELSE LET months == SortedSeq(flows_index(Positive(d), Negative(d), d))
             Cell(series, m) ==
                 IF m \in MonthsOf(series) THEN MonthSum(series, m) ELSE 0
         IN  [k \in 1..Len(months) |->
                [month |-> months[k],
                 inflow |-> Cell(Positive(d), months[k]),
                 outflow |-> Cell(Negative(d), months[k]),
                 net |-> Cell(d, months[k])]]

(***************************************************************************)
(* category_breakdown.                                                     *)
(***************************************************************************)
\* the order of the category labels as text
CatRank(c) == CASE c = "" -> 0 [] c = "Autre" -> 1 [] OTHER -> 2

RECURSIVE KeysInOrder(_)
KeysInOrder(S) ==
    IF S = {} THEN <<>>
    ELSE LET m == CHOOSE c \in S : \A o \in S : CatRank(c) <= CatRank(o)
         IN  <<m>> \o KeysInOrder(S \ {m})

\* line 181: groupby('category') leaves out the rows whose key is NULL
group_keys(d) == {d[i].category : i \in 1..Len(d)} \ {NULL}

CategorySum(d, c) == LET Keep(r) == r.category = c IN ColSum(Filter(d, Keep))

RECURSIVE InsertByAmount(_, _)
InsertByAmount(s, e) ==
    IF s = <<>> THEN <<e>>
    ELSE IF Head(s).amount <= e.amount
         THEN <<Head(s)>> \o InsertByAmount(Tail(s), e)
         ELSE <<e>> \o s

RECURSIVE SortByAmount(_)
SortByAmount(s) ==
    IF s = <<>> THEN <<>>
    ELSE InsertByAmount(SortByAmount(SubSeq(s, 1, Len(s) - 1)), s[Len(s)])

\* line 182: sort_values('amount')
sort_values(s) == SortByAmount(s)

\* lines 178-183
category_breakdown(d) ==
    IF d = <<>> THEN <<>>
    ELSE LET keys == KeysInOrder(group_keys(d))
             out == [k \in 1..Len(keys) |->
                       [category |-> keys[k], amount |-> CategorySum(d, keys[k])]]
         IN  sort_values(out)

NoKpi == [current_balance |-> 0, net_30d |-> 0,
          avg_daily_burn |-> Quot(0, 1), runway_days |-> None]

(***************************************************************************)
(* The dashboard pass of main(), lines 239-273.                            *)
(***************************************************************************)
StoreVars == <<transactions, next_id, initial_balance, up, import_outcome,
               store_before>>
AggVars == <<ts, mf, cb>>

\* line 239
Fetch ==
    /\ pc = "fetch"
    /\ df' = fetch_transactions_df(transactions)
    /\ pc' = "kpi"
    /\ UNCHANGED <<StoreVars, AggVars, today, cutoff, days, kpi, prev_kpi>>

\* lines 118-124
KpiEmpty ==
    /\ pc = "kpi"
    /\ df = <<>>
    /\ kpi' = [current_balance |-> current_balance(df, initial_balance),
               net_30d |-> 0,
               avg_daily_burn |-> Quot(0, 1),
               runway_days |-> None]
    /\ pc' = "kpi_done"
    /\ UNCHANGED <<StoreVars, AggVars, today, df, cutoff, days, prev_kpi>>

\* lines 126-130: the first date.today()
KpiCutoff ==
    /\ pc = "kpi"
    /\ df # <<>>
    /\ cutoff' = cutoff_at(today)
    /\ kpi' = [kpi EXCEPT !.current_balance = current_balance(df, initial_balance),
                          !.net_30d = net_30d(df, cutoff_at(today))]
    /\ pc' = "kpi_burn"
    /\ UNCHANGED <<StoreVars, AggVars, today, df, days, prev_kpi>>

\* lines 133-152: the second date.today()
KpiBurn ==
    /\ pc = "kpi_burn"
    /\ days' = days_of(df, cutoff, today)
    /\ LET burn == avg_daily_burn(df, cutoff, days_of(df, cutoff, today))
       IN  kpi' = [kpi EXCEPT !.avg_daily_burn = burn,
                              !.runway_days = runway_days(kpi.current_balance, burn)]
    /\ pc' = "kpi_done"
    /\ UNCHANGED <<StoreVars, AggVars, today, df, cutoff, prev_kpi>>

\* midnight passes
Tick ==
    /\ today < SetMax(FirstDays) + MaxTicks
    /\ today' = today + 1
    /\ UNCHANGED <<StoreVars, AggVars, pc, df, cutoff, days, kpi, prev_kpi>>

\* line 253
Timeseries ==
    /\ pc = "kpi_done"
    /\ ts' = balance_timeseries(df, initial_balance)
    /\ pc' = "ts_done"
    /\ UNCHANGED <<StoreVars, today, df, cutoff, days, kpi, prev_kpi, mf, cb>>

\* line 261
Monthly ==
    /\ pc = "ts_done"
    /\ mf' = monthly_flows(df)
    /\ pc' = "mf_done"
    /\ UNCHANGED <<StoreVars, today, df, cutoff, days, kpi, prev_kpi, ts, cb>>

\* line 269
Category ==
    /\ pc = "mf_done"
    /\ cb' = category_breakdown(df)
    /\ pc' = "done"
    /\ UNCHANGED <<StoreVars, today, df, cutoff, days, kpi, prev_kpi, ts, mf>>

\* the script runs again on the same table
Rerun ==
    /\ pc = "done"
    /\ prev_kpi' = Some(kpi)
    /\ kpi' = NoKpi
    /\ ts' = <<>>
    /\ mf' = <<>>
    /\ cb' = <<>>
    /\ pc' = "fetch"
    /\ UNCHANGED <<StoreVars, today, df, cutoff, days>>

Pass == Fetch \/ KpiEmpty \/ KpiCutoff \/ KpiBurn \/ Timeseries \/ Monthly \/ Category

(***************************************************************************)
(* Tables the store can hold: rows with ids 1..n.                          *)
(***************************************************************************)
RowTypes(dates, cats) ==
    [t_date : dates, category : cats, amount : Amounts]

Tables(types) ==
    UNION { { { [id |-> i, t_date |-> f[i].t_date, category |-> f[i].category,
                 amount |-> f[i].amount] : i \in 1..n } : f \in [1..n -> types] }
            : n \in 0..MaxTx }

InitCommon ==
    /\ initial_balance \in Balances
    /\ today \in FirstDays
    /\ up = <<>>
    /\ import_outcome = "none"
    /\ store_before = {}
    /\ pc = "fetch"
    /\ df = <<>>
    /\ cutoff = 0
    /\ days = 0
    /\ kpi = NoKpi
    /\ prev_kpi = None
    /\ ts = <<>>
    /\ mf = <<>>
    /\ cb = <<>>

InitKpi ==
    /\ transactions \in Tables(RowTypes(KpiDates, {"Autre"}))
    /\ next_id = Cardinality(transactions) + 1
    /\ InitCommon

NextKpi == Pass \/ Tick \/ Rerun

SpecKpi == InitKpi /\ [][NextKpi]_vars

InitAgg ==
    /\ transactions \in Tables(RowTypes(AggDates, Categories))
    /\ next_id = Cardinality(transactions) + 1
    /\ InitCommon

NextAgg == Pass

SpecAgg == InitAgg /\ [][NextAgg]_vars

(***************************************************************************)
(* The store: init_db and the handlers of the transactions table.          *)
(***************************************************************************)
\* sqlite3 binds a float NaN as NULL
SqlValue(v) == IF v = NaN THEN NULL ELSE v

\* lines 78-85; the id is the table's AUTOINCREMENT value
insert_transaction(table, id, t_date, category, amount) ==
    table \cup {[id |-> id, t_date |-> t_date,
                 category |-> SqlValue(category), amount |-> amount]}

\* lines 88-95
update_transaction(table, tid, t_date, category, amount) ==
    {IF r.id = tid
     THEN [id |-> tid, t_date |-> t_date,
           category |-> SqlValue(category), amount |-> amount]
     ELSE r : r \in table}

\* lines 98-102
delete_transaction(table, tid) == {r \in table : r.id # tid}

(***************************************************************************)
(* The CSV import of main(), lines 208-225.                                *)
(***************************************************************************)
Required == {"date", "description", "category", "amount"}
Expected == {"date", "description", "category", "amount", "account"}

\* str.lower on the column names used here
Lower(c) ==
    CASE c = "Date" -> "date"
      [] c = "Description" -> "description"
      [] c = "Category" -> "category"
      [] c = "Amount" -> "amount"
      [] c = "Account" -> "account"
      [] OTHER -> c

\* pd.to_datetime(...).dt.date on one cell: <<day>>, or <<>> when it raises
ParseDate(text) ==
    CASE text = "2024-02-20" -> Some(50)
      [] text = "2024-03-16" -> Some(75)
      [] OTHER -> None

\* float(...) on one cell: <<number>>, or <<>> when it raises
ParseFloat(text) ==
    CASE text = "2" -> Some(2)
      [] text = "-3" -> Some(-3)
      [] OTHER -> None

\* pd.read_csv on a text cell: the empty cell is NaN
ReadCell(text) == IF text = "" THEN NaN ELSE text

\* Python's  v or default : NaN is truthy, the empty string is falsy
OrDefault(v, default) == IF v = "" THEN default ELSE v

\* r['description'], r['category'], r['amount'] raise KeyError when the frame
\* has no column of exactly that name; float() raises on a non-numeric cell
RowRaises(columns, row) ==
    \/ ~({"description", "category", "amount"} \subseteq columns)
    \/ ParseFloat(row.amount) = None

RECURSIVE import_rows_skipping(_, _, _, _)
import_rows_skipping(table, id, columns, rows) ==
    IF rows = <<>> THEN [table |-> table, next_id |-> id, outcome |-> "failed"]
    ELSE IF RowRaises(columns, Head(rows))
    THEN import_rows_skipping(table, id, columns, Tail(rows))
    ELSE import_rows_skipping(
             insert_transaction(table, id, ParseDate(Head(rows).date)[1],
                                OrDefault(ReadCell(Head(rows).category), "Autre"),
                                ParseFloat(Head(rows).amount)[1]),
             id + 1, columns, Tail(rows))

RECURSIVE import_rows(_, _, _, _)
\* lines 221-223: one committed insert per row, up to the first row that raises
import_rows(table, id, columns, rows) ==
    IF rows = <<>> THEN [table |-> table, next_id |-> id, outcome |-> "success"]
    ELSE IF RowRaises(columns, Head(rows))
    THEN [table |-> table, next_id |-> id, outcome |-> "failed"]
    ELSE import_rows(
             insert_transaction(table, id, ParseDate(Head(rows).date)[1],
                                OrDefault(ReadCell(Head(rows).category), "Autre"),
                                ParseFloat(Head(rows).amount)[1]),
             id + 1, columns, Tail(rows))

\* line 212
columns_present(columns) == Required \subseteq {Lower(c) : c \in columns}

\* lines 216-219: a column whose lower-case name is missing is added, empty
normalised(columns) ==
    columns \cup {col \in Expected : col \notin {Lower(c) : c \in columns}}

\* line 220: imp['date'] raises KeyError without a column named date, and
\* to_datetime raises when a cell of the column does not parse
dates_raise(columns, rows) ==
    \/ "date" \notin columns
    \/ \E i \in 1..Len(rows) : ParseDate(rows[i].date) = None

\* lines 209-225
import_csv(table, id, file) ==
    IF ~columns_present(file.columns)
    THEN [table |-> table, next_id |-> id, outcome |-> "missing_columns"]
    ELSE IF dates_raise(normalised(file.columns), file.rows)
    THEN [table |-> table, next_id |-> id, outcome |-> "failed"]
    ELSE import_rows(table, id, normalised(file.columns), file.rows)

Headers ==
    { {"date", "description", "category", "amount"},
      {"date", "description", "category", "amount", "account"},
      {"Date", "Description", "Category", "Amount"},
      {"date", "description", "category", "Amount"},
      {"date", "description", "amount"} }

RowCells ==
    { [date |-> "2024-02-20", category |-> "", amount |-> "2"],
      [date |-> "2024-03-16", category |-> "Autre", amount |-> "-3"],
      [date |-> "2024-13-45", category |-> "Autre", amount |-> "2"],
      [date |-> "2024-02-20", category |-> "Autre", amount |-> "abc"] }

Files ==
    [columns : Headers,
     rows : UNION {[1..n -> RowCells] : n \in 0..MaxRows}]

FormRows == RowTypes({75}, {"", "Autre"})

PassVars == <<today, pc, df, cutoff, days, kpi, prev_kpi, ts, mf, cb>>

\* lines 208-225: a run of the script with a file in the uploader
Import(file) ==
    /\ Cardinality(transactions) + Len(file.rows) <= MaxTx
    /\ next_id + Len(file.rows) <= MaxId + 1
    /\ LET res == import_csv(transactions, next_id, file)
       IN  /\ transactions' = res.table
           /\ next_id' = res.next_id
           /\ import_outcome' = res.outcome
    /\ up' = Some(file)
    /\ store_before' = transactions
    /\ UNCHANGED <<initial_balance, PassVars>>

\* the file is taken out of the uploader
RemoveFile ==
    /\ up # None
    /\ up' = None
    /\ import_outcome' = "none"
    /\ store_before' = {}
    /\ UNCHANGED <<transactions, next_id, initial_balance, PassVars>>

\* lines 200-202
SaveInitialBalance(val) ==
    /\ up = None
    /\ initial_balance' = val
    /\ UNCHANGED <<transactions, next_id, up, import_outcome, store_before, PassVars>>

\* lines 315-318
Add(row) ==
    /\ up = None
    /\ Cardinality(transactions) < MaxTx
    /\ next_id <= MaxId
    /\ transactions' = insert_transaction(transactions, next_id, row.t_date,
                                          row.category, row.amount)
    /\ next_id' = next_id + 1
    /\ UNCHANGED <<initial_balance, up, import_outcome, store_before, PassVars>>

\* lines 327-341: the id comes from the select box over the table's ids
Edit(sel, row) ==
    /\ up = None
    /\ sel \in {r.id : r \in transactions}
    /\ transactions' = update_transaction(transactions, sel, row.t_date,
                                          row.category, row.amount)
    /\ UNCHANGED <<next_id, initial_balance, up, import_outcome, store_before, PassVars>>

\* lines 297-303: any id >= 0 can be typed; 0 only warns
Delete(del_id) ==
    /\ up = None
    /\ transactions' = IF del_id > 0 THEN delete_transaction(transactions, del_id)
                       ELSE transactions
    /\ UNCHANGED <<next_id, initial_balance, up, import_outcome, store_before, PassVars>>

\* lines 30-58: the tables are empty and the initial balance is '0'
Init ==
    /\ transactions = {}
    /\ next_id = 1
    /\ InitCommon
    /\ initial_balance = 0

Next ==
    \/ \E file \in Files : Import(file)
    \/ RemoveFile
    \/ \E val \in Balances : SaveInitialBalance(val)
    \/ \E row \in FormRows : Add(row)
    \/ \E sel \in 1..MaxId, row \in FormRows : Edit(sel, row)
    \/ \E del_id \in 0..MaxId : Delete(del_id)

Spec == Init /\ [][Next]_vars

(***************************************************************************)
(* Properties of the analytics helpers.                                    *)
(***************************************************************************)
KpiReturned == pc \in {"kpi_done", "ts_done", "mf_done", "done"}

Todays == SetMin(FirstDays)..(SetMax(FirstDays) + MaxTicks)

\* C1: compute_kpis returns current_balance = initial_balance + the sum of the
\* amounts of all records of the snapshot; initial_balance itself for the empty
\* snapshot.
C1_CurrentBalance ==
    KpiReturned =>
        /\ kpi.current_balance = initial_balance + SetSum(transactions)
        /\ transactions = {} => kpi.current_balance = initial_balance

C1_Witness ==
    /\ KpiReturned
    /\ Cardinality(transactions) >= 2
    /\ SetSum(transactions) # 0
    /\ initial_balance # 0

\* C3: runway_days is None exactly when avg_daily_burn >= 0; when
\* avg_daily_burn < 0 it is floor(current_balance / -avg_daily_burn) if
\* current_balance > 0 and 0 if current_balance <= 0, so it is never negative.
C3_Runway ==
    KpiReturned =>
        LET burn == kpi.avg_daily_burn
            bal == kpi.current_balance
        IN  /\ (kpi.runway_days = None) <=> (burn.num >= 0)
            /\ burn.num < 0 =>
                 \E r \in 0..(Abs(bal) * burn.den) :
                    /\ kpi.runway_days = Some(r)
                    /\ bal > 0 => /\ r * (-burn.num) <= bal * burn.den
                                  /\ bal * burn.den < (r + 1) * (-burn.num)
                    /\ bal <= 0 => r = 0

C3_Witness ==
    /\ KpiReturned
    /\ kpi.runway_days # None
    /\ kpi.runway_days[1] > 0
    /\ kpi.runway_days[1] * (-kpi.avg_daily_burn.num)
           < kpi.current_balance * kpi.avg_daily_burn.den

\* what C4 says compute_kpis returns for the nonempty snapshot when the date is t
BurnContract(t) ==
    LET c == t - 30
        window == {r \in transactions : r.t_date >= c}
        period == IF window # {} THEN window ELSE transactions
        dates(S) == {r.t_date : r \in S}
        n == IF window # {}
             THEN (t - Max(SetMin(dates(window)), c)) + 1
             ELSE Max((SetMax(dates(transactions)) - SetMin(dates(transactions))) + 1, 30)
        divisor == Max(n, 1)
    IN  /\ cutoff = c
        /\ days = n
        /\ divisor >= 1
        /\ kpi.avg_daily_burn.num * divisor = SetSum(period) * kpi.avg_daily_burn.den
        /\ kpi.net_30d = SetSum(window)

\* C4: for every non-empty snapshot and today, with cutoff = today - 30: the burn
\* period is the records with date >= cutoff if there is one, with
\* days = (today - max(earliest such date, cutoff)) + 1, else the whole snapshot
\* with days = max(span + 1, 30); avg_daily_burn = sum(period) / max(days, 1)
\* and net_30d is the sum of the amounts with date >= cutoff.
C4_BurnPeriod ==
    (KpiReturned /\ transactions # {}) => \E t \in Todays : BurnContract(t)

\* C5: compute_kpis is deterministic in (snapshot, initial_balance, today): the
\* cutoff and the day count of one call come from the same today, and a second
\* run on the unchanged snapshot and initial_balance returns the same dict,
\* whenever the runs happen.
C5_Deterministic ==
    /\ (KpiReturned /\ df # <<>>) =>
          \E t \in Todays : cutoff = cutoff_at(t) /\ days = days_of(df, cutoff, t)
    /\ (KpiReturned /\ prev_kpi # None) => kpi = prev_kpi[1]

\* C6: balance_timeseries returns one (date, balance) entry per distinct date
\* of the snapshot, strictly ascending by date, each balance being
\* initial_balance plus the amounts of all records dated on or before it; the
\* last balance is the current_balance of compute_kpis, and the empty snapshot
\* gives the empty sequence.
C6_Timeseries ==
    pc \in {"ts_done", "mf_done", "done"} =>
        /\ {ts[k].date : k \in 1..Len(ts)} = {r.t_date : r \in transactions}
        /\ Len(ts) = Cardinality({r.t_date : r \in transactions})
        /\ \A j, k \in 1..Len(ts) : j < k => ts[j].date < ts[k].date
        /\ \A k \in 1..Len(ts) :
              ts[k].balance =
                  initial_balance
                    + SetSum({r \in transactions : r.t_date <= ts[k].date})
        /\ ts # <<>> => ts[Len(ts)].balance = kpi.current_balance
        /\ transactions = {} => ts = <<>>

C6_Witness ==
    /\ pc = "ts_done"
    /\ Len(ts) = 1
    /\ Cardinality(transactions) = 2
    /\ \A r \in transactions : r.amount # 0
    /\ initial_balance # 0

\* C8: monthly_flows returns one (month, inflow, outflow, net) entry per calendar
\* month holding a record (also a month whose amounts are all 0), strictly
\* ascending by month, inflow the sum of the positive amounts of the month,
\* outflow the sum of the negative ones, net = inflow + outflow = the sum of all.
C8_MonthlyFlows ==
    pc \in {"mf_done", "done"} =>
        LET InMonth(m) == {r \in transactions : MonthStart(r.t_date) = m}
        IN  /\ {mf[k].month : k \in 1..Len(mf)}
                 = {MonthStart(r.t_date) : r \in transactions}
            /\ Len(mf) = Cardinality({MonthStart(r.t_date) : r \in transactions})
            /\ \A j, k \in 1..Len(mf) : j < k => mf[j].month < mf[k].month
            /\ \A k \in 1..Len(mf) :
                  /\ mf[k].inflow = SetSum({r \in InMonth(mf[k].month) : r.amount > 0})
                  /\ mf[k].outflow = SetSum({r \in InMonth(mf[k].month) : r.amount < 0})
                  /\ mf[k].net = mf[k].inflow + mf[k].outflow
                  /\ mf[k].net = SetSum(InMonth(mf[k].month))

C8_Witness ==
    /\ pc = "mf_done"
    /\ Len(mf) = 2
    /\ mf[1].inflow = 0 /\ mf[1].outflow = 0
    /\ mf[2].net # 0

\* C2: the sum of net over the rows of monthly_flows equals the sum of the
\* amounts over the rows of category_breakdown, and both equal the sum of
\* amount over all records, also when records have a NULL category.
C2_Conservation ==
    pc = "done" =>
        LET net == [k \in 1..Len(mf) |-> [amount |-> mf[k].net]]
        IN  /\ ColSum(net) = ColSum(cb)
            /\ ColSum(net) = SetSum(transactions)

\* C7: category_breakdown returns one (category, net_amount) entry per distinct
\* category, the records without a category forming an entry of their own,
\* each net_amount the sum of the category's amounts, ascending by net_amount;
\* the empty snapshot gives the empty sequence.
C7_CategoryBreakdown ==
    pc = "done" =>
        LET present == {r.category : r \in transactions}
        IN  /\ Len(cb) = Cardinality(present)
            /\ \A c \in present :
                  \E k \in 1..Len(cb) :
                     /\ cb[k].category = c
                     /\ cb[k].amount = SetSum({r \in transactions : r.category = c})
            /\ \A j, k \in 1..Len(cb) : j < k => cb[j].amount <= cb[k].amount
            /\ transactions = {} => cb = <<>>

(***************************************************************************)
(* Properties of the import.                                               *)
(***************************************************************************)
Imported == up # None /\ import_outcome # "none"

RowParses(row) == ParseDate(row.date) # None /\ ParseFloat(row.amount) # None

\* the rows of the table that the last import created
Created == transactions \ store_before

\* row i of the file is among the created transactions
RowCreated(i) ==
    LET row == up[1].rows[i]
    IN  \E r \in Created :
           /\ Some(r.t_date) = ParseDate(row.date)
           /\ Some(r.amount) = ParseFloat(row.amount)

\* C9: a file whose required columns are present under any letter case and
\* whose rows all parse is imported with the success outcome, one created
\* transaction per row: the table grows by the number of rows.
C9_ImportAnyCase ==
    (/\ Imported
     /\ Required \subseteq {Lower(c) : c \in up[1].columns}
     /\ \A i \in 1..Len(up[1].rows) : RowParses(up[1].rows[i]))
    => /\ import_outcome = "success"
       /\ store_before \subseteq transactions
       /\ Cardinality(transactions) = Cardinality(store_before) + Len(up[1].rows)
       /\ \A i \in 1..Len(up[1].rows) : RowCreated(i)

\* the import of a file with the required columns has met a row that does not parse
FailingImport ==
    /\ Imported
    /\ Required \subseteq {Lower(c) : c \in up[1].columns}
    /\ \E i \in 1..Len(up[1].rows) : ~RowParses(up[1].rows[i])

FirstFailing ==
    SetMin({i \in 1..Len(up[1].rows) : ~RowParses(up[1].rows[i])})

\* C10 as claimed: when row k fails to parse, the import stops there with one
\* error outcome, the rows before k are inserted and stay, row k and the rows
\* after it are not inserted.
C10_PartialCommit ==
    FailingImport =>
        /\ import_outcome = "failed"
        /\ store_before \subseteq transactions
        /\ Cardinality(Created) = FirstFailing - 1
        /\ \A i \in 1..(FirstFailing - 1) : RowCreated(i)

\* C10 as amended: the import of a file with a row that does not parse ends with
\* one error outcome and creates nothing from the first such row on; the rows
\* before it are created and stay exactly when every date of the file parses and
\* the columns date, description, category and amount are spelled in lower
\* case; otherwise nothing is created.
C10_Amended ==
    FailingImport =>
        /\ import_outcome = "failed"
        /\ store_before \subseteq transactions
        /\ IF /\ Required \subseteq up[1].columns
              /\ \A i \in 1..Len(up[1].rows) : ParseDate(up[1].rows[i].date) # None
           THEN /\ Cardinality(Created) = FirstFailing - 1
                /\ \A i \in 1..(FirstFailing - 1) : RowCreated(i)
           ELSE Created = {}

C10_Witness ==
    /\ FailingImport
    /\ FirstFailing = 2
    /\ Cardinality(Created) = 1
    /\ ParseFloat(up[1].rows[2].amount) = None

====
